---- MODULE Spec2Model ----
(***************************************************************************)
(* Model of egile-agent-x-twitter: the XTwitterPlugin (plugin.py) and the  *)
(* MCPClient it owns (mcp_client.py).                                       *)
(*                                                                         *)
(* Strings are sequences of tokens.  A token is one character ("a", " ",   *)
(* "-", NL, ...) or a fixed phrase of the program's output that holds no   *)
(* newline, no dash and no "POST TEXT:" (so that the draft-extraction      *)
(* regex treats it as one ordinary character).  "POST TEXT:" is one token. *)
(* Optional[str] is None == <<>> or Some(s) == <<s>>.                      *)
(* Coroutines are cut at the awaits that really suspend (transport open,   *)
(* session open, initialize, the remote call, aclose); the code between    *)
(* two such awaits is one atomic step.                                     *)
(***************************************************************************)
EXTENDS Integers, Sequences, FiniteSets, TLC

(***************************************************************************)
(* Optional values and characters                                          *)
(***************************************************************************)
None == <<>>
Some(x) == <<x>>
Get(o) == o[1]

NL == "\n"
SP == " "
DASH == "-"
PT == "POST TEXT:"

\* Python's str.isspace() on the characters of the model.
IsSpace(c) == c \in {SP, NL}

RECURSIVE Concat(_)
Concat(ss) == IF ss = <<>> THEN <<>> ELSE Head(ss) \o Concat(Tail(ss))

\* sep.join(parts), parts a sequence of strings.
RECURSIVE Join(_, _)
Join(sep, parts) ==
    IF parts = <<>> THEN <<>>
    ELSE IF Len(parts) = 1 THEN parts[1]
    ELSE parts[1] \o sep \o Join(sep, Tail(parts))

\* s[:k] with Python's meaning of a negative k.
PySlicePrefix(s, k) ==
    IF k >= 0 THEN SubSeq(s, 1, IF k < Len(s) THEN k ELSE Len(s))
    ELSE SubSeq(s, 1, IF Len(s) + k > 0 THEN Len(s) + k ELSE 0)

\* str.strip()
Strip(s) ==
    LET idx == {i \in 1..Len(s) : ~IsSpace(s[i])}
    IN  IF idx = {} THEN <<>>
        ELSE LET lo == CHOOSE i \in idx : \A j \in idx : i <= j
                 hi == CHOOSE i \in idx : \A j \in idx : i >= j
             IN  SubSeq(s, lo, hi)

\* sub in s
Contains(s, sub) ==
    \E i \in 1..(Len(s) - Len(sub) + 1) : SubSeq(s, i, i + Len(sub) - 1) = sub

\* str.split(): the maximal runs of non-whitespace characters, in order.
RECURSIVE Split(_)
Split(s) ==
    IF s = <<>> THEN <<>>
    ELSE IF IsSpace(s[1]) THEN Split(Tail(s))
    ELSE LET stops == {i \in 1..Len(s) : IsSpace(s[i])}
             e == IF stops = {} THEN Len(s) + 1
                  ELSE CHOOSE i \in stops : \A j \in stops : i <= j
         IN  <<SubSeq(s, 1, e - 1)>> \o Split(SubSeq(s, e, Len(s)))

Lowers == <<"a", "b", "e", "h", "l", "o">>
Uppers == <<"A", "B", "E", "H", "L", "O">>
UpperChar(c) ==
    IF \E i \in 1..Len(Lowers) : Lowers[i] = c
    THEN Uppers[CHOOSE i \in 1..Len(Lowers) : Lowers[i] = c] ELSE c
LowerChar(c) ==
    IF \E i \in 1..Len(Uppers) : Uppers[i] = c
    THEN Lowers[CHOOSE i \in 1..Len(Uppers) : Uppers[i] = c] ELSE c
\* str.capitalize()
Capitalize(w) ==
    [i \in 1..Len(w) |-> IF i = 1 THEN UpperChar(w[i]) ELSE LowerChar(w[i])]

\* str(n) for an int
RECURSIVE NatDigits(_)
NatDigits(n) ==
    LET d == <<"0", "1", "2", "3", "4", "5", "6", "7", "8", "9">>[(n % 10) + 1]
    IN  IF n < 10 THEN <<d>> ELSE NatDigits(n \div 10) \o <<d>>
IntStr(n) == IF n < 0 THEN <<DASH>> \o NatDigits(0 - n) ELSE NatDigits(n)

\* str(x) for the float x = n.0, as an f-string formats it
FloatStr(n) == IntStr(n) \o <<".", "0">>

\* '-' * n
Dashes(n) == [i \in 1..n |-> DASH]

(***************************************************************************)
(* plugin.py: pure helpers                                                 *)
(***************************************************************************)
SepLen == 60

Min(S) == CHOOSE x \in S : \A y \in S : x <= y

\* Last index of the run of dashes that starts at k (s[k] is a dash).
DashRunEnd(s, k) ==
    CHOOSE m \in k..Len(s) :
        /\ (m = Len(s) \/ s[m + 1] # DASH)
        /\ \A x \in k..m : s[x] = DASH

\* "\n[-]+\n" matches right after index e.
ClosesAfter(s, e) ==
    /\ e + 3 <= Len(s)
    /\ s[e + 1] = NL
    /\ s[e + 2] = DASH
    /\ LET m == DashRunEnd(s, e + 2) IN m + 1 <= Len(s) /\ s[m + 1] = NL

\* "POST TEXT:\s*\n[-]+\n" matched from index i: the indices where group 1 may
\* start (at most one: the newline before the dashes ends the whitespace run).
\* closers holds the indices e with ClosesAfter(s, e).
HeaderEnds(s, i, closers) ==
    IF s[i] # PT THEN {}
    ELSE {DashRunEnd(s, e + 2) + 2 :
            e \in {e \in closers : e >= i /\ \A x \in (i + 1)..e : IsSpace(s[x])}}

\* Group 1 of the leftmost match: "(.+?)" is lazy, so it ends at the first index
\* at or after its start after which "\n[-]+\n" matches.  <<b, e>>, or <<>> when
\* nothing matches.
SearchIn(s, closers) ==
    LET Starts(i) == {b \in HeaderEnds(s, i, closers) : \E e \in closers : e >= b}
        pts == {i \in 1..Len(s) : s[i] = PT /\ Starts(i) # {}}
    IN  IF pts = {} THEN <<>>
        ELSE LET b == Min(Starts(Min(pts)))
             IN  <<b, Min({e \in closers : e >= b})>>

\* re.search(r"POST TEXT:\s*\n[-]+\n(.+?)\n[-]+\n", s, re.DOTALL)
SearchPostText(s) ==
    CHOOSE m \in {SearchIn(s, closers) :
                    closers \in {{e \in 1..Len(s) : ClosesAfter(s, e)}}} : TRUE

\* XTwitterPlugin._extract_post_text
ExtractPostText(output) ==
    LET m == SearchPostText(output)
    IN  IF m = <<>> THEN None ELSE Some(Strip(SubSeq(output, m[1], m[2])))

Emoji(style) ==
    IF style = "casual" THEN "<wave>"
    ELSE IF style = "witty" THEN "<grin>"
    ELSE IF style = "inspirational" THEN "<sparkles>"
    ELSE "<loudspeaker>"

Ellipsis == <<".", ".", ".">>

\* The hashtags of _create_post_direct: "#" + word.capitalize() for the first two
\* words longer than 4 characters.
Hashtags(text) ==
    LET long == SelectSeq(Split(text), LAMBDA w : Len(w) > 4)
    IN  [i \in 1..(IF Len(long) < 2 THEN Len(long) ELSE 2) |->
            <<"#">> \o Capitalize(long[i])]

\* The styled post before truncation.
StyledPost(text, style, include_hashtags) ==
    LET post == <<Emoji(style), SP>> \o text
        tags == Hashtags(text)
    IN  IF include_hashtags /\ tags # <<>>
        THEN post \o <<NL, NL>> \o Join(<<SP>>, tags)
        ELSE post

Truncate(post, max_length) ==
    IF Len(post) > max_length
    THEN PySlicePrefix(post, max_length - 3) \o Ellipsis
    ELSE post

\* The post rendered inside the POST TEXT block.
DirectPost(text, style, include_hashtags, max_length) ==
    Truncate(StyledPost(text, style, include_hashtags), max_length)

Count(s, c) == Cardinality({i \in 1..Len(s) : s[i] = c})

\* XTwitterPlugin._create_post_direct
CreatePostDirect(text, style, include_hashtags, max_length) ==
    LET post == DirectPost(text, style, include_hashtags, max_length)
    IN  <<"<check> Post Created Successfully!", NL, NL>>
        \o <<"<memo> ", PT, NL>> \o Dashes(SepLen) \o <<NL>>
        \o post \o <<NL>>
        \o Dashes(SepLen) \o <<NL, NL>>
        \o <<"<chart> STATISTICS:", NL>>
        \o <<"  * Characters: ">> \o IntStr(Len(post)) \o <<"/">>
        \o IntStr(max_length) \o <<NL>>
        \o <<"  * Hashtags: ">> \o IntStr(Count(post, "#")) \o <<NL>>
        \o <<"  * Style: ", style, NL, NL>>
        \o <<"<bulb> TIP: To publish this post, use the publish_post tool with confirm=True", NL>>

\* XTwitterPlugin._publish_post_direct; now stands for datetime.now().
PublishPostDirect(text, now) ==
    <<"<rocket> Post Published Successfully!", NL, NL>>
    \o <<"<memo> PUBLISHED TEXT:", NL>> \o Dashes(SepLen) \o <<NL>>
    \o text \o <<NL>>
    \o Dashes(SepLen) \o <<NL, NL>>
    \o <<"<chart> DETAILS:", NL>>
    \o <<"  * Published At: ">> \o IntStr(now) \o <<NL>>
    \o <<"  * Character Count: ">> \o IntStr(Len(text)) \o <<NL>>
    \o <<"  * Status: Success (simulated)", NL, NL>>
    \o <<"<warning> NOTE: This is a simulated publish. To publish to actual X/Twitter,", NL>>
    \o <<"configure the X API credentials in the MCP server and use MCP mode.", NL>>

CreateGuidance ==
    <<"No text provided. Pass either 'text' or 'post_text' with the content to draft.">>

PublishGuidance ==
    <<"No post_text provided", " and no ", "cached draft", " found. Please pass the exact post text to publish (e.g., the latest draft you just created). The MCP server is stateless, so include the full post_text in this call.">>

DryRunPreview(text) ==
    <<"<warning> DRY RUN MODE", NL, NL, "This post is ready to publish:", NL, NL>>
    \o text
    \o <<NL, NL, "To actually publish, call this tool again with confirm=True">>

(***************************************************************************)
(* mcp_client.py: pure helpers                                             *)
(***************************************************************************)
\* A content item of a tool result: hasText says whether it has a .text attribute.
TextItem(t) == [hasText |-> TRUE, text |-> t]
BlobItem == [hasText |-> FALSE, text |-> <<>>]

\* str(result.content) of a non-empty list of items.
ReprContent(content) ==
    <<"[">> \o Join(<<",", SP>>, [i \in 1..Len(content) |-> <<"<item>">>]) \o <<"]">>

\* Mutant of ToolText: only the first item with text is returned.
ToolTextFirstOnly(content) ==
    IF content = <<>> THEN <<>>
    ELSE LET items == SelectSeq(content, LAMBDA it : it.hasText)
         IN  IF items # <<>> THEN items[1].text ELSE ReprContent(content)

\* Lines 124-128 of call_tool: the text returned for a response's content.
ToolText(content) ==
    IF content = <<>> THEN <<>>
    ELSE LET items == SelectSeq(content, LAMBDA it : it.hasText)
             text_parts == [i \in 1..Len(items) |-> items[i].text]
         IN  IF text_parts # <<>> THEN Join(<<NL>>, text_parts)
             ELSE ReprContent(content)

(***************************************************************************)
(* Bounds and inputs                                                       *)
(***************************************************************************)
MaxClients == 1
MaxAttempts == 2

DefaultTimeout == 30
DefaultMaxLength == 280

\* The host's coroutines: two, so that two calls can overlap.  The plugin's host
\* of Spec issues its calls one after the other, from the first.
Tasks == {1, 2}
HostTasks == {1}
ClientIds == 1..MaxClients
Attempts == 1..MaxAttempts

Hello == <<"h", "e", "l", "l", "o">>
\* A response text holding a POST TEXT block around content c.
Block(c) == <<"x", SP, PT, SP, NL, DASH, DASH, NL>> \o c \o <<NL, DASH, NL, "y">>

\* A timeout (in seconds, a float like the default) a caller of MCPClient passes.
ShortTimeout == 5

PublishTexts == {<<"b">>}
Times == {7}

\* Contents a tool response may carry.
Responses ==
    { <<>>,
      <<BlobItem>>,
      <<TextItem(<<"o", "k">>)>>,
      <<TextItem(Block(<<SP, "a", SP>>))>>,
      <<TextItem(<<PT>>), BlobItem, TextItem(<<DASH, NL, "b", NL, DASH, NL>>)>>,
      <<TextItem(Block(<<SP>>))>> }
\* Contents returned to a direct caller of the client.
ClientResponses ==
    { <<>>,
      <<BlobItem>>,
      <<TextItem(<<PT>>), BlobItem, TextItem(<<DASH, NL, "b", NL, DASH, NL>>)>> }

(***************************************************************************)
(* State                                                                   *)
(***************************************************************************)
VARIABLES
    use_mcp,        \* XTwitterPlugin.use_mcp
    mcp_transport,  \* XTwitterPlugin.mcp_transport
    plugin_client,  \* XTwitterPlugin._client: 0 is None, else a client id
    last_draft,     \* XTwitterPlugin._last_draft_text: None or Some(text)
    clients,        \* the MCPClient instances
    conns,          \* per connect attempt: the exit stack it made and what it opened
    tasks,          \* per task: the coroutine it runs and where it is suspended
    last,           \* the call that completed most recently, and how
    confirmed,      \* history: publish_post was called with confirm=True before
    overtaken       \* history: the create_post call that returned most recently
                    \* while another one was awaiting its response, or None

vars ==
    <<use_mcp, mcp_transport, plugin_client, last_draft, clients, conns, tasks, last,
      confirmed, overtaken>>

NoArgs ==
    [text |-> <<>>, post_text |-> <<>>, style |-> "professional",
     include_hashtags |-> TRUE, max_length |-> DefaultMaxLength, confirm |-> FALSE]
CreateArgs(text, post_text, style, include_hashtags, max_length) ==
    [NoArgs EXCEPT !.text = text, !.post_text = post_text, !.style = style,
        !.include_hashtags = include_hashtags, !.max_length = max_length]
PublishArgs(post_text, confirm) ==
    [NoArgs EXCEPT !.post_text = post_text, !.confirm = confirm]

NoReq == [tool |-> "none", args |-> NoArgs, sess |-> 0, ready |-> FALSE]

NoClient ==
    [made |-> FALSE, transport |-> "stdio", command |-> TRUE,
     timeout |-> DefaultTimeout, session |-> 0, exit_stack |-> 0]
\* MCPClient.__init__
NewClient(transport, command, timeout) ==
    [made |-> TRUE, transport |-> transport, command |-> command,
     timeout |-> timeout, session |-> 0, exit_stack |-> 0]

\* An exit stack nobody made yet.  transport/session: "none", "open", "closed";
\* sessStack is the exit stack the attempt's session was entered on.
NoConn ==
    [client |-> 0, transport |-> "none", session |-> "none", sessStack |-> 0,
     init |-> FALSE]

IdleFrame ==
    [pc |-> "idle", op |-> "none", client |-> 0, att |-> 0, stk |-> 0,
     tool |-> "none", args |-> NoArgs, targs |-> NoArgs, req |-> NoReq,
     sends |-> 0, draft0 |-> None, client0 |-> 0, second |-> FALSE]

NoLast ==
    [task |-> 0, op |-> "none", client |-> 0, tool |-> "none", args |-> NoArgs,
     req |-> NoReq, sends |-> 0, draft0 |-> None, client0 |-> 0, second |-> FALSE,
     resp |-> <<>>, outcome |-> "none", now |-> 0,
     kind |-> "none", value |-> <<>>, exc |-> "none", msg |-> <<>>]

\* How a call ends.
Return(value) == [kind |-> "return", value |-> value, exc |-> "none", msg |-> <<>>]
Raise(exc, msg) == [kind |-> "raise", value |-> <<>>, exc |-> exc, msg |-> msg]

NextAtt == 1 + Cardinality({a \in Attempts : conns[a].client # 0})
NextClient == 1 + Cardinality({c \in ClientIds : clients[c].made})

\* The call of frame f of task t ends with res; obs are the observations kept of it.
Done(t, f, res, obs) ==
    /\ tasks' = [tasks EXCEPT ![t] = IdleFrame]
    /\ last' = [NoLast EXCEPT !.task = t, !.op = f.op, !.client = f.client,
                    !.tool = f.tool, !.args = f.args, !.req = f.req,
                    !.sends = f.sends, !.draft0 = f.draft0, !.client0 = f.client0,
                    !.second = f.second,
                    !.resp = obs.resp, !.outcome = obs.outcome, !.now = obs.now,
                    !.kind = res.kind, !.value = res.value, !.exc = res.exc,
                    !.msg = res.msg]
NoObs == [resp |-> <<>>, outcome |-> "none", now |-> 0]

(***************************************************************************)
(* mcp_client.py: MCPClient                                                *)
(***************************************************************************)
\* The ValueError connect raises for the client's configuration, or <<>>.
ConfigError(cl) ==
    IF cl.transport = "stdio"
    THEN IF ~cl.command THEN <<"command is required for stdio transport">> ELSE <<>>
    ELSE IF cl.transport = "sse" THEN <<>>
    ELSE <<"Unsupported transport: ", cl.transport>>

\* Mutant of TimeoutMessage: the message names the default timeout, not the
\* client's.
TimeoutMessageDefault(tool_name, timeout) ==
    <<"MCP tool '", tool_name, "' timed out after ">> \o FloatStr(DefaultTimeout) \o <<"s">>

TimeoutMessage(tool_name, timeout) ==
    <<"MCP tool '", tool_name, "' timed out after ">> \o FloatStr(timeout) \o <<"s">>

\* connect() past the "already connected" check, by task t running frame f on
\* client f.client of cl: a fresh exit stack replaces self._exit_stack, then the
\* configuration is checked and the transport starts to open.
StartConnect(t, f, cl) ==
    LET c == f.client
        a == NextAtt
    IN  /\ a <= MaxAttempts
        /\ clients' = [cl EXCEPT ![c].exit_stack = a]
        /\ conns' = [conns EXCEPT ![a].client = c]
        /\ IF ConfigError(cl[c]) # <<>>
           THEN Done(t, f, Raise("ValueError", ConfigError(cl[c])), NoObs)
           ELSE /\ tasks' = [tasks EXCEPT ![t] =
                                [f EXCEPT !.pc = "conn_transport", !.att = a]]
                /\ last' = NoLast

\* self._session.call_tool(tool_name, arguments) is sent on session sess.
SendFrame(f, sess, ready) ==
    [f EXCEPT !.pc = "ct_wait",
              !.req = [tool |-> f.tool, args |-> f.targs, sess |-> sess,
                       ready |-> ready],
              !.sends = f.sends + 1]

SessionReady(cn, sess) == cn[sess].session = "open" /\ cn[sess].init

\* call_tool() from its first line, as the first step of a call.
CallToolEntry(t, f, cl) ==
    LET c == f.client
    IN  IF cl[c].session = 0
        THEN StartConnect(t, f, cl)
        ELSE /\ clients' = cl
             /\ UNCHANGED conns
             /\ tasks' = [tasks EXCEPT ![t] =
                    SendFrame(f, cl[c].session, SessionReady(conns, cl[c].session))]
             /\ last' = NoLast

IsConnectOp(op) == op \in {"on_agent_start", "connect"}

\* await enter_async_context(stdio_client/sse_client) returns: the transport is
\* open on the task's exit stack; ClientSession is entered on self._exit_stack
\* as it is now.
TransportOpened(t) ==
    LET f == tasks[t]
        c == f.client
    IN  /\ f.pc = "conn_transport"
        /\ conns' = [conns EXCEPT ![f.att].transport = "open"]
        /\ IF clients[c].exit_stack = 0
           THEN Done(t, f, Raise("AttributeError", <<>>), NoObs)
           ELSE /\ tasks' = [tasks EXCEPT ![t] =
                    [f EXCEPT !.pc = "conn_session", !.stk = clients[c].exit_stack]]
                /\ UNCHANGED last
        /\ UNCHANGED <<confirmed, overtaken, use_mcp, mcp_transport, plugin_client, last_draft, clients>>

\* The transport fails to open: nothing is pushed on the exit stack.
TransportFailed(t) ==
    LET f == tasks[t]
    IN  /\ f.pc = "conn_transport"
        /\ Done(t, f, Raise("ConnectError", <<>>), NoObs)
        /\ UNCHANGED <<confirmed, overtaken, use_mcp, mcp_transport, plugin_client, last_draft, clients, conns>>

\* await enter_async_context(ClientSession(...)) returns: self._session is set,
\* and initialize() is sent.
SessionOpened(t) ==
    LET f == tasks[t]
    IN  /\ f.pc = "conn_session"
        /\ conns' = [conns EXCEPT ![f.att].session = "open", ![f.att].sessStack = f.stk]
        /\ clients' = [clients EXCEPT ![f.client].session = f.att]
        /\ tasks' = [tasks EXCEPT ![t] = [f EXCEPT !.pc = "conn_init"]]
        /\ UNCHANGED <<confirmed, overtaken, use_mcp, mcp_transport, plugin_client, last_draft, last>>

SessionFailed(t) ==
    LET f == tasks[t]
    IN  /\ f.pc = "conn_session"
        /\ Done(t, f, Raise("ConnectError", <<>>), NoObs)
        /\ UNCHANGED <<confirmed, overtaken, use_mcp, mcp_transport, plugin_client, last_draft, clients, conns>>

\* await self._session.initialize() returns: connect() returns, and a call_tool()
\* that awaited it goes on to its second check and sends the request.
InitDone(t) ==
    LET f == tasks[t]
        c == f.client
        cn == [conns EXCEPT ![f.att].init = TRUE]
    IN  /\ f.pc = "conn_init"
        /\ conns[f.att].session = "open"
        /\ conns' = cn
        /\ IF IsConnectOp(f.op)
           THEN Done(t, f, Return(<<>>), NoObs)
           ELSE IF clients[c].session = 0
           THEN Done(t, f, Raise("RuntimeError", <<"Failed to initialize MCP session">>),
                     NoObs)
           ELSE /\ tasks' = [tasks EXCEPT ![t] =
                    SendFrame(f, clients[c].session, SessionReady(cn, clients[c].session))]
                /\ UNCHANGED last
        /\ UNCHANGED <<confirmed, overtaken, use_mcp, mcp_transport, plugin_client, last_draft, clients>>

\* The handshake fails: self._session stays set.
InitFailed(t) ==
    LET f == tasks[t]
    IN  /\ f.pc = "conn_init"
        /\ Done(t, f, Raise("HandshakeError", <<>>), NoObs)
        /\ UNCHANGED <<confirmed, overtaken, use_mcp, mcp_transport, plugin_client, last_draft, clients, conns>>

\* Lines 99-101 of close(): aclose() has closed what is on the exit stack the
\* call found, then both fields are reset.  cleanup() then drops the client.
CloseDone(t) ==
    LET f == tasks[t]
    IN  /\ f.pc = "close_wait"
        /\ conns' = [a \in Attempts |->
                [conns[a] EXCEPT
                    !.transport = IF a = f.stk /\ @ = "open" THEN "closed" ELSE @,
                    !.session = IF conns[a].sessStack = f.stk /\ @ = "open"
                                THEN "closed" ELSE @]]
        /\ clients' = [clients EXCEPT ![f.client].exit_stack = 0,
                                      ![f.client].session = 0]
        /\ plugin_client' = IF f.op = "cleanup" THEN 0 ELSE plugin_client
        /\ Done(t, f, Return(<<>>), NoObs)
        /\ UNCHANGED <<confirmed, overtaken, use_mcp, mcp_transport, last_draft>>

\* Mutant of CacheAfter: a draft that is cached is kept.
CacheAfterKeepFirst(draft, result) ==
    LET cached == ExtractPostText(result)
    IN  IF draft = None /\ cached # None /\ Get(cached) # <<>> THEN cached ELSE draft

\* Mutant of CacheAfter: the extracted text is appended to the cached draft.
CacheAfterAppend(draft, result) ==
    LET cached == ExtractPostText(result)
    IN  IF cached # None /\ Get(cached) # <<>>
        THEN Some((IF draft = None THEN <<>> ELSE Get(draft)) \o Get(cached))
        ELSE draft

\* The cached draft after create_post got result (lines 99-102 of plugin.py).
CacheAfter(draft, result) ==
    LET cached == ExtractPostText(result)
    IN  IF cached # None /\ Get(cached) # <<>> THEN cached ELSE draft

\* Another task's create_post is suspended awaiting its remote response.
OtherCreateInFlight(t) ==
    \E u \in Tasks \ {t} : tasks[u].op = "create_post" /\ tasks[u].pc = "ct_wait"

\* The awaited session.call_tool returns content within the timeout: call_tool
\* returns its text, and the plugin's create_post caches the draft it holds.
ToolResponse(t, content) ==
    LET f == tasks[t]
    IN  /\ f.pc = "ct_wait"
        /\ SessionReady(conns, f.req.sess)
        /\ \E result \in {ToolText(content)} :
              /\ last_draft' = IF f.op = "create_post"
                               THEN CacheAfter(last_draft, result) ELSE last_draft
              /\ overtaken' = IF f.op = "create_post" /\ OtherCreateInFlight(t)
                               THEN Some([task |-> t, second |-> f.second,
                                          resp |-> content, value |-> result])
                               ELSE overtaken
              /\ Done(t, f, Return(result),
                      [NoObs EXCEPT !.resp = content, !.outcome = "response"])
        /\ UNCHANGED <<confirmed, use_mcp, mcp_transport, plugin_client, clients, conns>>

\* asyncio.wait_for gives up after self.timeout.
ToolTimeout(t) ==
    LET f == tasks[t]
    IN  /\ f.pc = "ct_wait"
        /\ Done(t, f, Raise("TimeoutError",
                            TimeoutMessage(f.tool, clients[f.client].timeout)),
                [NoObs EXCEPT !.outcome = "timeout"])
        /\ UNCHANGED <<confirmed, overtaken, use_mcp, mcp_transport, plugin_client, last_draft, clients, conns>>

\* The session raises: logged and re-raised.
ToolFailed(t) ==
    LET f == tasks[t]
    IN  /\ f.pc = "ct_wait"
        /\ Done(t, f, Raise("RemoteError", <<>>), [NoObs EXCEPT !.outcome = "error"])
        /\ UNCHANGED <<confirmed, overtaken, use_mcp, mcp_transport, plugin_client, last_draft, clients, conns>>

\* connect() called on client c.
Connect(t, c) ==
    LET f == [IdleFrame EXCEPT !.op = "connect", !.client = c]
    IN  /\ tasks[t].pc = "idle"
        /\ clients[c].made
        /\ IF clients[c].session # 0
           THEN Done(t, f, Return(<<>>), NoObs) /\ UNCHANGED <<clients, conns>>
           ELSE StartConnect(t, f, clients)
        /\ UNCHANGED <<confirmed, overtaken, use_mcp, mcp_transport, plugin_client, last_draft>>

\* The first step of close() on client c of frame f.
CloseEntry(t, f) ==
    IF clients[f.client].exit_stack = 0
    THEN Done(t, f, Return(<<>>), NoObs)
    ELSE /\ tasks' = [tasks EXCEPT ![t] =
                [f EXCEPT !.pc = "close_wait", !.stk = clients[f.client].exit_stack]]
         /\ last' = NoLast

\* close() called on client c.
Close(t, c) ==
    /\ tasks[t].pc = "idle"
    /\ clients[c].made
    /\ CloseEntry(t, [IdleFrame EXCEPT !.op = "close", !.client = c])
    /\ UNCHANGED <<confirmed, overtaken, use_mcp, mcp_transport, plugin_client, last_draft, clients, conns>>

\* MCPClient.create_post called on client c.
ClientCreatePost(t, c, args) ==
    /\ tasks[t].pc = "idle"
    /\ clients[c].made
    /\ CallToolEntry(t, [IdleFrame EXCEPT !.op = "client.create_post", !.client = c,
                            !.tool = "create_post", !.args = args, !.targs = args],
                     clients)
    /\ UNCHANGED <<confirmed, overtaken, use_mcp, mcp_transport, plugin_client, last_draft>>

\* MCPClient.publish_post called on client c.
ClientPublishPost(t, c, args) ==
    /\ tasks[t].pc = "idle"
    /\ clients[c].made
    /\ CallToolEntry(t, [IdleFrame EXCEPT !.op = "client.publish_post", !.client = c,
                            !.tool = "publish_post", !.args = args, !.targs = args],
                     clients)
    /\ UNCHANGED <<confirmed, overtaken, use_mcp, mcp_transport, plugin_client, last_draft>>

(***************************************************************************)
(* plugin.py: XTwitterPlugin                                               *)
(***************************************************************************)
\* text or post_text (line 83)
EffectiveText(text, post_text) == IF text # <<>> THEN text ELSE post_text

\* Mutant of EffectivePostText: the cached draft is not consulted.
EffectivePostTextNoDraft(post_text, draft) ==
    IF post_text # <<>> THEN Some(post_text) ELSE None

\* post_text or self._last_draft_text (line 156): None, or Some(text)
EffectivePostText(post_text, draft) ==
    IF post_text # <<>> THEN Some(post_text) ELSE draft

\* The text of an optional string, None read as empty.
OrEmpty(o) == IF o = None THEN <<>> ELSE Get(o)

\* self.use_mcp and self._client (lines 87, 170)
UsesClient(use, client) == use /\ client # 0

\* Mutant of CreatePlan: the effective text is not checked.
CreatePlanNoTextCheck(text, post_text, use, client) ==
    IF UsesClient(use, client) THEN "remote" ELSE "direct"

\* Which way create_post goes (lines 83-97).
CreatePlan(text, post_text, use, client) ==
    IF EffectiveText(text, post_text) = <<>> THEN "guidance"
    ELSE IF UsesClient(use, client) THEN "remote"
    ELSE "direct"

\* Mutant of PublishPlan: the confirm flag is not checked.
PublishPlanNoGate(post_text, confirm, draft, use, client) ==
    LET eff == EffectivePostText(post_text, draft)
    IN  IF eff = None \/ Get(eff) = <<>> THEN "guidance"
        ELSE IF UsesClient(use, client) THEN "remote"
        ELSE "direct"

\* Mutant of PublishPlan: the missing text is only reported in a dry run.
PublishPlanNoTextCheck(post_text, confirm, draft, use, client) ==
    LET eff == EffectivePostText(post_text, draft)
    IN  IF ~confirm
        THEN IF eff = None \/ Get(eff) = <<>> THEN "guidance" ELSE "dry_run"
        ELSE IF UsesClient(use, client) THEN "remote"
        ELSE "direct"

\* Which way publish_post goes (lines 156-175).
PublishPlan(post_text, confirm, draft, use, client) ==
    LET eff == EffectivePostText(post_text, draft)
    IN  IF eff = None \/ Get(eff) = <<>> THEN "guidance"
        ELSE IF ~confirm THEN "dry_run"
        ELSE IF UsesClient(use, client) THEN "remote"
        ELSE "direct"

\* on_agent_start: in remote mode a new MCPClient replaces self._client and is
\* connected.
OnAgentStart(t) ==
    LET c == NextClient
        f == [IdleFrame EXCEPT !.op = "on_agent_start", !.client = c,
                               !.draft0 = last_draft, !.client0 = plugin_client]
    IN  /\ tasks[t].pc = "idle"
        /\ IF use_mcp
           THEN /\ c <= MaxClients
                /\ plugin_client' = c
                /\ StartConnect(t, f,
                     [clients EXCEPT ![c] = NewClient(mcp_transport, TRUE, DefaultTimeout)])
           ELSE /\ Done(t, [f EXCEPT !.client = 0], Return(<<>>), NoObs)
                /\ UNCHANGED <<plugin_client, clients, conns>>
        /\ UNCHANGED <<confirmed, overtaken, use_mcp, mcp_transport, last_draft>>

\* cleanup: close the client if there is one, then drop it.
Cleanup(t) ==
    LET f == [IdleFrame EXCEPT !.op = "cleanup", !.client = plugin_client,
                               !.draft0 = last_draft, !.client0 = plugin_client]
    IN  /\ tasks[t].pc = "idle"
        /\ IF plugin_client # 0
           THEN /\ CloseEntry(t, f)
                /\ plugin_client' = IF clients[plugin_client].exit_stack = 0 THEN 0
                                    ELSE plugin_client
           ELSE Done(t, f, Return(<<>>), NoObs) /\ UNCHANGED plugin_client
        /\ UNCHANGED <<confirmed, overtaken, use_mcp, mcp_transport, last_draft, clients, conns>>

\* create_post
CreatePost(t, args) ==
    LET eff == EffectiveText(args.text, args.post_text)
        plan == CreatePlan(args.text, args.post_text, use_mcp, plugin_client)
        f == [IdleFrame EXCEPT !.op = "create_post", !.args = args,
                               !.draft0 = last_draft, !.client0 = plugin_client,
                               !.second = OtherCreateInFlight(t)]
    IN  /\ tasks[t].pc = "idle"
        /\ overtaken' = IF OtherCreateInFlight(t) THEN overtaken ELSE None
        /\ CASE plan = "guidance" ->
                  /\ Done(t, f, Return(CreateGuidance), NoObs)
                  /\ UNCHANGED <<last_draft, clients, conns>>
             [] plan = "remote" ->
                  /\ CallToolEntry(t, [f EXCEPT !.client = plugin_client,
                                          !.tool = "create_post",
                                          !.targs = CreateArgs(eff, <<>>, args.style,
                                              args.include_hashtags, args.max_length)],
                                   clients)
                  /\ UNCHANGED last_draft
             [] plan = "direct" ->
                  \E result \in {CreatePostDirect(eff, args.style,
                                    args.include_hashtags, args.max_length)} :
                      /\ last_draft' = CacheAfter(last_draft, result)
                      /\ Done(t, f, Return(result), NoObs)
                      /\ UNCHANGED <<clients, conns>>
        /\ UNCHANGED <<confirmed, use_mcp, mcp_transport, plugin_client>>

\* publish_post; now is the clock read by the simulated publish.
PublishPost(t, args, now) ==
    LET eff == EffectivePostText(args.post_text, last_draft)
        plan == PublishPlan(args.post_text, args.confirm, last_draft, use_mcp,
                            plugin_client)
        f == [IdleFrame EXCEPT !.op = "publish_post", !.args = args,
                               !.draft0 = last_draft, !.client0 = plugin_client]
    IN  /\ tasks[t].pc = "idle"
        /\ CASE plan = "guidance" ->
                  /\ Done(t, f, Return(PublishGuidance), NoObs)
                  /\ UNCHANGED <<clients, conns>>
             [] plan = "dry_run" ->
                  /\ Done(t, f, Return(DryRunPreview(OrEmpty(eff))), NoObs)
                  /\ UNCHANGED <<clients, conns>>
             [] plan = "remote" ->
                  CallToolEntry(t, [f EXCEPT !.client = plugin_client,
                                       !.tool = "publish_post",
                                       !.targs = PublishArgs(OrEmpty(eff), TRUE)],
                                clients)
             [] plan = "direct" ->
                  /\ Done(t, f, Return(PublishPostDirect(OrEmpty(eff), now)),
                          [NoObs EXCEPT !.now = now])
                  /\ UNCHANGED <<clients, conns>>
        /\ confirmed' = (confirmed \/ args.confirm)
        /\ UNCHANGED <<overtaken, use_mcp, mcp_transport, plugin_client, last_draft>>

\* self._last_draft_text or ""
LastDraftOrEmpty(draft) == OrEmpty(draft)

\* get_last_draft
GetLastDraft(t) ==
    /\ tasks[t].pc = "idle"
    /\ Done(t, [IdleFrame EXCEPT !.op = "get_last_draft", !.draft0 = last_draft,
                                 !.client0 = plugin_client],
            Return(LastDraftOrEmpty(last_draft)), NoObs)
    /\ UNCHANGED <<confirmed, overtaken, use_mcp, mcp_transport, plugin_client, last_draft, clients, conns>>

(***************************************************************************)
(* Specifications                                                          *)
(***************************************************************************)
\* The calls of create_post the host makes: both texts empty, text alone,
\* post_text alone, both; a text that holds a line of dashes; a text with a long
\* word; each style, hashtags on and off, a max_length below the post's length.
CreateInputs ==
    { CreateArgs(<<>>, <<>>, "professional", TRUE, DefaultMaxLength),
      CreateArgs(<<"a">>, <<>>, "professional", TRUE, DefaultMaxLength),
      CreateArgs(<<>>, <<"b">>, "inspirational", TRUE, DefaultMaxLength),
      CreateArgs(<<"b", NL, DASH, NL, "a">>, <<"b">>, "casual", FALSE, DefaultMaxLength),
      CreateArgs(Hello \o <<SP, "a", SP>>, <<>>, "witty", TRUE, 5) }
PublishInputs ==
    {PublishArgs(x, c) : x \in PublishTexts \cup {<<>>}, c \in BOOLEAN}
\* What a caller of the client's own wrappers passes.
ClientCreateInputs == {CreateArgs(x, <<>>, "professional", TRUE, DefaultMaxLength) : x \in {<<"a">>}}
ClientPublishInputs == {PublishArgs(x, TRUE) : x \in PublishTexts}

\* The steps at which an awaited operation of the client completes, but for the
\* arrival of a response.
ClientStep(t) ==
    \/ TransportOpened(t)
    \/ TransportFailed(t)
    \/ SessionOpened(t)
    \/ SessionFailed(t)
    \/ InitDone(t)
    \/ InitFailed(t)
    \/ CloseDone(t)
    \/ ToolTimeout(t)
    \/ ToolFailed(t)

\* The plugin as its host drives it.
Init ==
    /\ use_mcp \in BOOLEAN
    /\ mcp_transport \in {"stdio", "sse", "pipe"}
    /\ plugin_client = 0
    /\ last_draft = None
    /\ clients = [c \in ClientIds |-> NoClient]
    /\ conns = [a \in Attempts |-> NoConn]
    /\ tasks = [t \in Tasks |-> IdleFrame]
    /\ last = NoLast
    /\ confirmed = FALSE
    /\ overtaken = None

Next ==
    \E t \in HostTasks :
        \/ OnAgentStart(t)
        \/ Cleanup(t)
        \/ \E args \in CreateInputs : CreatePost(t, args)
        \/ \E args \in PublishInputs, now \in Times : PublishPost(t, args, now)
        \/ GetLastDraft(t)
        \/ ClientStep(t)
        \/ \E content \in Responses : ToolResponse(t, content)

Spec == Init /\ [][Next]_vars

\* One MCPClient driven directly: stdio without a command, sse with a timeout of
\* its own, and a transport the client does not know.  (The plugin of Spec makes
\* the stdio client that has a command.)
ClientConfigs ==
    { NewClient("stdio", FALSE, DefaultTimeout),
      NewClient("sse", FALSE, ShortTimeout),
      NewClient("pipe", TRUE, DefaultTimeout) }

ClientInit ==
    /\ use_mcp = TRUE
    /\ mcp_transport = "stdio"
    /\ plugin_client = 0
    /\ last_draft = None
    /\ \E cfg \in ClientConfigs :
          clients = [c \in ClientIds |-> IF c = 1 THEN cfg ELSE NoClient]
    /\ conns = [a \in Attempts |-> NoConn]
    /\ tasks = [t \in Tasks |-> IdleFrame]
    /\ last = NoLast
    /\ confirmed = FALSE
    /\ overtaken = None

ClientNext ==
    \E t \in Tasks :
        \/ \E c \in ClientIds : Connect(t, c)
        \/ \E c \in ClientIds : Close(t, c)
        \/ \E c \in ClientIds, args \in ClientCreateInputs : ClientCreatePost(t, c, args)
        \/ \E c \in ClientIds, args \in ClientPublishInputs : ClientPublishPost(t, c, args)
        \/ ClientStep(t)
        \/ \E content \in ClientResponses : ToolResponse(t, content)

ClientSpec == ClientInit /\ [][ClientNext]_vars

(***************************************************************************)
(* Claims about the plugin (Spec)                                          *)
(***************************************************************************)
\* The requests that are in flight or belong to the call that completed last,
\* each with the operation and the arguments of the call that sent it.
InFlightRequests ==
    {[req |-> tasks[t].req, op |-> tasks[t].op, args |-> tasks[t].args] :
        t \in {t \in Tasks : tasks[t].req # NoReq}}
LastRequest ==
    IF last.req = NoReq THEN {}
    ELSE {[req |-> last.req, op |-> last.op, args |-> last.args]}
SentRequests == InFlightRequests \cup LastRequest

\* The text a publish_post call is to publish, by its arguments and the draft
\* cached when it was called.
PublishTextOf(call) ==
    IF call.args.post_text # <<>> THEN call.args.post_text ELSE OrEmpty(call.draft0)

\* C1: the remote publish_post is only ever invoked by a plugin publish_post call
\* whose own confirm argument is true; a publish_post call with confirm=false
\* (and a text to publish) returns the dry-run preview holding that text verbatim
\* and sends nothing, whether or not an earlier call was confirmed.
C1_PublishOnlyWhenConfirmed ==
    /\ \A r \in SentRequests :
          r.req.tool = "publish_post" =>
              r.op = "publish_post" /\ r.args.confirm /\ r.req.args.confirm
    /\ (last.op = "publish_post" /\ ~last.args.confirm /\ PublishTextOf(last) # <<>>) =>
          /\ last.kind = "return"
          /\ Head(last.value) = "<warning> DRY RUN MODE"
          /\ Contains(last.value, PublishTextOf(last))
          /\ last.req = NoReq
          /\ last.sends = 0

\* A dry run on a connected plugin after a confirmed publish_post.
C1_Witness ==
    /\ last.op = "publish_post"
    /\ ~last.args.confirm
    /\ PublishTextOf(last) # <<>>
    /\ confirmed
    /\ use_mcp
    /\ last.client0 # 0
    /\ clients[last.client0].session # 0

\* C2: publish_post never sends an empty post text; with no post_text and no
\* cached draft it returns the guidance string and sends nothing, whatever
\* confirm is.
C2_NoEmptyPublish ==
    /\ last_draft # Some(<<>>)
    /\ \A r \in SentRequests :
          r.req.tool = "publish_post" => r.req.args.post_text # <<>>
    /\ (last.op = "publish_post" /\ last.args.post_text = <<>> /\ last.draft0 = None) =>
          /\ last.kind = "return"
          /\ Contains(last.value, <<"No post_text provided">>)
          /\ Contains(last.value, <<"cached draft">>)
          /\ last.req = NoReq
          /\ last.sends = 0

\* A confirmed publish_post without text or draft on a plugin that holds a client.
C2_Witness ==
    /\ last.op = "publish_post"
    /\ last.args.post_text = <<>>
    /\ last.draft0 = None
    /\ last.args.confirm
    /\ use_mcp
    /\ last.client0 # 0

\* C3: in remote mode, a confirmed publish_post of a non-empty text on a plugin
\* that holds no client raises RuntimeError.
C3_PublishRequiresClient ==
    (/\ last.op = "publish_post"
     /\ use_mcp
     /\ last.client0 = 0
     /\ last.args.confirm
     /\ PublishTextOf(last) # <<>>) =>
        last.kind = "raise" /\ last.exc = "RuntimeError"

\* C4: a confirmed publish_post without post_text, called while draft D is cached,
\* does what publish_post(post_text=D, confirm=true) does: the remote publish_post
\* gets exactly D, or (no client) the simulated publish renders D; and in every
\* state the two calls would take the same way with the same text.
C4_CachedDraftPublishedAsExplicit ==
    /\ \A t \in Tasks :
          (/\ tasks[t].op = "publish_post"
           /\ tasks[t].args.post_text = <<>>
           /\ tasks[t].args.confirm
           /\ tasks[t].pc = "ct_wait") =>
              /\ tasks[t].draft0 # None
              /\ tasks[t].req.tool = "publish_post"
              /\ tasks[t].req.args = PublishArgs(Get(tasks[t].draft0), TRUE)
    /\ (/\ last.op = "publish_post"
        /\ last.args.post_text = <<>>
        /\ last.args.confirm
        /\ last.draft0 # None) =>
          IF last.req # NoReq
          THEN /\ last.req.tool = "publish_post"
               /\ last.req.args = PublishArgs(Get(last.draft0), TRUE)
               /\ last.outcome = "response" => last.value = ToolText(last.resp)
          ELSE last.kind = "return" =>
                   last.value = PublishPostDirect(Get(last.draft0), last.now)
    /\ last_draft # None =>
          /\ PublishPlan(<<>>, TRUE, last_draft, use_mcp, plugin_client)
                = PublishPlan(Get(last_draft), TRUE, last_draft, use_mcp, plugin_client)
          /\ EffectivePostText(<<>>, last_draft)
                = EffectivePostText(Get(last_draft), last_draft)

\* create_post cached a draft and publish_post() sent it to the remote side, which
\* answered.
C4_Witness ==
    /\ last.op = "publish_post"
    /\ last.args.post_text = <<>>
    /\ last.args.confirm
    /\ last.draft0 # None
    /\ last.req.tool = "publish_post"
    /\ last.req.args.post_text = Get(last.draft0)
    /\ last.outcome = "response"

\* C5: after a create_post that returns a result with a well-formed POST TEXT
\* block, get_last_draft() returns the trimmed inner content of that block.  Stated
\* for the results of the local template, whose block holds the post it rendered.
C5_DraftIsTrimmedBlockContent ==
    (/\ last.op = "create_post"
     /\ last.kind = "return"
     /\ last.req = NoReq
     /\ EffectiveText(last.args.text, last.args.post_text) # <<>>) =>
        LastDraftOrEmpty(last_draft) =
            Strip(DirectPost(EffectiveText(last.args.text, last.args.post_text),
                             last.args.style, last.args.include_hashtags,
                             last.args.max_length))

\* C6: in remote mode create_post with a non-empty text always goes to the remote
\* create_post (connecting a client first when the plugin holds none) and returns
\* what the remote side answered.
C6_RemoteCreateAlwaysDelegates ==
    (/\ last.op = "create_post"
     /\ use_mcp
     /\ EffectiveText(last.args.text, last.args.post_text) # <<>>
     /\ last.kind = "return") =>
        /\ last.req.tool = "create_post"
        /\ last.outcome = "response"
        /\ last.value = ToolText(last.resp)

(***************************************************************************)
(* Claims about the client (ClientSpec)                                    *)
(***************************************************************************)
OpenTransports(c) == {a \in Attempts : conns[a].client = c /\ conns[a].transport = "open"}
OpenSessions(c) == {a \in Attempts : conns[a].client = c /\ conns[a].session = "open"}

\* C7: a client never holds more than one open transport or more than one open
\* session, whatever connect, close and call_tool calls were made and however
\* they ended or overlapped.
C7_AtMostOneLiveConnection ==
    \A c \in ClientIds :
        /\ Cardinality(OpenTransports(c)) <= 1
        /\ Cardinality(OpenSessions(c)) <= 1

\* C8: once close() has returned (and no other call is running), the client is
\* not connected and nothing that any earlier connect attempt opened is still open.
C8_CloseReleasesEverything ==
    (/\ last.op = "close"
     /\ last.kind = "return"
     /\ \A t \in Tasks : tasks[t].pc = "idle") =>
        /\ clients[last.client].session = 0
        /\ clients[last.client].exit_stack = 0
        /\ OpenTransports(last.client) = {}
        /\ OpenSessions(last.client) = {}

\* C9: a call_tool whose response does not come within the timeout raises
\* TimeoutError with a message that names the tool and the client's timeout, and
\* returns nothing; a call sends its request once, never again.
C9_TimeoutRaisesNamedError ==
    /\ last.outcome = "timeout" =>
          /\ last.kind = "raise"
          /\ last.exc = "TimeoutError"
          /\ Contains(last.msg, <<last.tool>>)
          /\ Contains(last.msg, FloatStr(clients[last.client].timeout) \o <<"s">>)
          /\ last.value = <<>>
          /\ last.sends = 1
    /\ last.sends <= 1
    /\ \A t \in Tasks :
          /\ tasks[t].sends <= 1
          /\ tasks[t].pc = "ct_wait" => tasks[t].sends = 1

\* A request sent over an initialized session of a client whose timeout is not
\* the default timed out.
C9_Witness ==
    /\ last.outcome = "timeout"
    /\ last.tool = "publish_post"
    /\ last.req.ready
    /\ clients[last.client].timeout = ShortTimeout

\* The texts of the items of a response that carry text, in order.
RECURSIVE TextsOf(_)
TextsOf(content) ==
    IF content = <<>> THEN <<>>
    ELSE (IF Head(content).hasText THEN <<Head(content).text>> ELSE <<>>)
         \o TextsOf(Tail(content))

\* C10 as stated: a successful call_tool returns the newline-joined texts of the
\* items that carry text, the empty string when no item carries one.
C10_Original ==
    last.outcome = "response" => last.value = Join(<<NL>>, TextsOf(last.resp))

\* C10 as amended: a successful call_tool returns the newline-joined texts of the
\* items that carry text, in order; the empty string when the response has no
\* items; and when it has items but none carries text, the non-empty rendering of
\* the list of items.
C10_ToolTextOfResponse ==
    last.outcome = "response" =>
        /\ last.kind = "return"
        /\ IF TextsOf(last.resp) # <<>>
           THEN last.value = Join(<<NL>>, TextsOf(last.resp))
           ELSE IF last.resp = <<>> THEN last.value = <<>>
           ELSE /\ last.value # <<>>
                /\ Head(last.value) = "["
                /\ Count(last.value, "<item>") = Len(last.resp)

\* A response with two text items around an item without text was returned.
C10_Witness ==
    /\ last.outcome = "response"
    /\ Len(TextsOf(last.resp)) = 2
    /\ Len(last.resp) = 3
    /\ last.kind = "return"

(***************************************************************************)
(* Further claims about the plugin (Spec)                                  *)
(***************************************************************************)
\* C11: create_post with text and post_text both empty returns the guidance
\* string as a normal result, sends nothing, renders nothing, and leaves the
\* cached draft and the client as they were, in every state and mode.
C11_EmptyCreateReturnsGuidance ==
    (/\ last.op = "create_post"
     /\ last.args.text = <<>>
     /\ last.args.post_text = <<>>) =>
        /\ last.kind = "return"
        /\ last.value = CreateGuidance
        /\ ~Contains(last.value, <<PT>>)
        /\ last.req = NoReq
        /\ last.sends = 0
        /\ last_draft = last.draft0
        /\ plugin_client = last.client0

\* An empty create_post on a connected remote-mode plugin that holds a draft.
C11_Witness ==
    /\ last.op = "create_post"
    /\ last.args.text = <<>>
    /\ last.args.post_text = <<>>
    /\ use_mcp
    /\ last.client0 # 0
    /\ clients[last.client0].session # 0
    /\ last.draft0 # None

\* C13: the cached draft changes only when a create_post call returns a result
\* that holds a POST TEXT block, and then the new draft is the text extracted
\* from that result (the old one is replaced); a publish_post with its own
\* post_text, get_last_draft, on_agent_start, cleanup, a create_post that raises
\* or whose result has no block leave it.  The host's calls follow one another:
\* the draft is the one the running call found, and after a call that changed it
\* the call is such a create_post.
C13_DraftChangesOnlyByCreate ==
    /\ \A t \in Tasks : tasks[t].pc # "idle" => last_draft = tasks[t].draft0
    /\ (last.op = "none" /\ \A t \in Tasks : tasks[t].pc = "idle") => last_draft = None
    /\ (last.op # "none" /\ last_draft # last.draft0) =>
          /\ last.op = "create_post"
          /\ last.kind = "return"
          /\ ExtractPostText(last.value) # None
          /\ last_draft = ExtractPostText(last.value)

\* A remote create_post replaced an older draft by the one in its response.
C13_Witness ==
    /\ last.op = "create_post"
    /\ last.outcome = "response"
    /\ last.draft0 # None
    /\ last_draft # last.draft0
    /\ last_draft = ExtractPostText(last.value)

(***************************************************************************)
(* The local template (DirectSpec)                                         *)
(***************************************************************************)
\* The arguments create_post is given in direct mode.
\* Every text, hashtag flag and max_length in the default style, and every
\* style on one text.
DirectTexts == {<<"a">>, Hello \o <<SP, "a", SP>>}
Styles == {"professional", "casual", "witty", "inspirational"}
MaxLengths == {-1, 0, 2, 3, 8, DefaultMaxLength}
DirectInputs ==
    {CreateArgs(x, <<>>, "professional", h, m) :
        x \in DirectTexts, h \in BOOLEAN, m \in MaxLengths}
    \cup {CreateArgs(Hello, <<>>, st, TRUE, DefaultMaxLength) : st \in Styles}

\* A plugin constructed with use_mcp=False.
DirectInit ==
    /\ use_mcp = FALSE
    /\ mcp_transport = "stdio"
    /\ plugin_client = 0
    /\ last_draft = None
    /\ clients = [c \in ClientIds |-> NoClient]
    /\ conns = [a \in Attempts |-> NoConn]
    /\ tasks = [t \in Tasks |-> IdleFrame]
    /\ last = NoLast
    /\ confirmed = FALSE
    /\ overtaken = None

DirectNext ==
    \E t \in HostTasks :
        \/ \E args \in DirectInputs : CreatePost(t, args)
        \/ GetLastDraft(t)

DirectSpec == DirectInit /\ [][DirectNext]_vars

Max(S) == CHOOSE x \in S : \A y \in S : x >= y

\* The text between the two separator lines of a result of the local template.
BlockOf(value) ==
    LET sep == <<NL>> \o Dashes(SepLen) \o <<NL>>
        at == {i \in 1..(Len(value) - Len(sep) + 1) :
                  SubSeq(value, i, i + Len(sep) - 1) = sep}
    IN  SubSeq(value, Min(at) + Len(sep), Max(at) - 1)

\* C14: in direct mode the post rendered inside the POST TEXT block is at most
\* max_length long, and when the styled post is longer than max_length it is the
\* styled post's first max_length-3 characters followed by "...".
C14_RenderedPostWithinMaxLength ==
    (/\ last.op = "create_post"
     /\ last.kind = "return"
     /\ last.args.text # <<>>) =>
        LET post == BlockOf(last.value)
            styled == StyledPost(last.args.text, last.args.style,
                                 last.args.include_hashtags)
        IN  /\ Len(post) <= last.args.max_length
            /\ Len(styled) > last.args.max_length =>
                  post = SubSeq(styled, 1, last.args.max_length - 3) \o Ellipsis

(***************************************************************************)
(* Overlapping calls of the plugin (ConcSpec)                              *)
(***************************************************************************)
\* A response with a POST TEXT block around "a", one around "b", and one without
\* a block.
ConcResponses ==
    { <<TextItem(Block(<<SP, "a", SP>>))>>,
      <<TextItem(<<PT>>), BlobItem, TextItem(<<DASH, NL, "b", NL, DASH, NL>>)>>,
      <<TextItem(<<"o", "k">>)>> }
ConcInputs == {CreateArgs(<<"a">>, <<>>, "professional", TRUE, DefaultMaxLength)}

\* A remote-mode plugin after on_agent_start has connected its client; its host
\* runs two tasks.
ConcInit ==
    /\ use_mcp = TRUE
    /\ mcp_transport = "stdio"
    /\ plugin_client = 1
    /\ last_draft = None
    /\ clients = [c \in ClientIds |->
            IF c = 1
            THEN [NewClient("stdio", TRUE, DefaultTimeout) EXCEPT
                      !.session = 1, !.exit_stack = 1]
            ELSE NoClient]
    /\ conns = [a \in Attempts |->
            IF a = 1
            THEN [client |-> 1, transport |-> "open", session |-> "open",
                  sessStack |-> 1, init |-> TRUE]
            ELSE NoConn]
    /\ tasks = [t \in Tasks |-> IdleFrame]
    /\ last = [NoLast EXCEPT !.task = 1, !.op = "on_agent_start", !.client = 1,
                             !.kind = "return"]
    /\ confirmed = FALSE
    /\ overtaken = None

ConcNext ==
    \E t \in Tasks :
        \/ \E args \in ConcInputs : CreatePost(t, args)
        \/ \E content \in ConcResponses : ToolResponse(t, content)
        \/ ToolTimeout(t)
        \/ ToolFailed(t)
        \/ GetLastDraft(t)

ConcSpec == ConcInit /\ [][ConcNext]_vars

\* The result carries a draft that create_post can extract.
Extractable(value) ==
    ExtractPostText(value) # None /\ Get(ExtractPostText(value)) # <<>>

\* C15: when two create_post calls overlapped, both awaiting their responses,
\* and both responses carried an extractable draft, then once both have returned
\* the cached draft is the draft of the call whose response came last, whichever
\* call was started first; and each call returned the text of its own response.
C15_LastCompletionWins ==
    (/\ \A t \in Tasks : tasks[t].pc = "idle"
     /\ overtaken # None
     /\ last.op = "create_post"
     /\ last.outcome = "response"
     /\ last.task # Get(overtaken).task
     /\ Extractable(Get(overtaken).value)
     /\ Extractable(last.value)) =>
        /\ last_draft = ExtractPostText(last.value)
        /\ last.value = ToolText(last.resp)
        /\ Get(overtaken).value = ToolText(Get(overtaken).resp)

\* The call that was started first got its response last, after the other call
\* had cached a different draft, and its draft is the one cached.
C15_Witness ==
    /\ \A t \in Tasks : tasks[t].pc = "idle"
    /\ overtaken # None
    /\ last.op = "create_post"
    /\ last.outcome = "response"
    /\ last.task # Get(overtaken).task
    /\ ~last.second
    /\ Get(overtaken).second
    /\ Extractable(Get(overtaken).value)
    /\ Extractable(last.value)
    /\ ExtractPostText(last.value) # ExtractPostText(Get(overtaken).value)
    /\ last_draft = ExtractPostText(last.value)

(***************************************************************************)
(* Further claims about the client (ClientSpec)                            *)
(***************************************************************************)
\* C12: a call_tool made while no other call is running (so after every earlier
\* connect has ended, one that failed in the handshake included) sends its
\* request only on a session whose initialize handshake has completed.
C12_NoSendBeforeHandshake ==
    [][(\A u \in Tasks : tasks[u].pc = "idle") =>
          \A t \in Tasks : tasks'[t].pc = "ct_wait" => tasks'[t].req.ready]_vars

====
